---- MODULE Spec2Model ----
(***************************************************************************)
(* Model of the Eliza desktop shell's server supervision                   *)
(* (packages/app/src-tauri/src/lib.rs).                                    *)
(*                                                                         *)
(* SERVER_PROCESS is the process-wide Arc<Mutex<Option<Child>>>.  The body *)
(* of the setup closure (lines 47-64) is the "ensure_started" operation,   *)
(* shutdown_server (lines 25-36) is the "shutdown" operation and            *)
(* is_server_running (lines 17-22) is the probe.                           *)
(*                                                                         *)
(* Two specifications are given:                                           *)
(*   Spec    - the two operations driven by arbitrary, possibly concurrent *)
(*             callers (the operations' contract);                         *)
(*   SpecApp - the program as wired in run(): the setup closure once, then *)
(*             the CloseRequested and Exit hooks.                          *)
(***************************************************************************)
EXTENDS Integers, FiniteSets, Sequences, TLC

\* ---------------------------------------------------------------- bounds
\* number of caller threads of the operations in Spec
NumCallers == 2
\* total number of operation calls made in Spec
MaxCalls == 3

\* ------------------------------------------------------------- constants
\* Option::None in the SERVER_PROCESS slot / "no thread" for the mutex owner
None == 0

\* the threads of the wired program: the setup closure and the two hooks
Setup == 1
CloseRequested == 2
Exit == 3
AppThreads == {Setup, CloseRequested, Exit}
ApiThreads == 1..NumCallers

\* identifiers of the child processes the launch command can create
Pids == 1..MaxCalls

\* outcomes of TcpStream::connect("127.0.0.1:3000")
ConnectErrors == {"ConnectionRefused", "TimedOut"}

VARIABLES
  SERVER_PROCESS, \* content of the mutex: None or the pid of the stored Child
  guard,          \* thread holding the MutexGuard, None when unlocked
  poisoned,       \* poison flag of the mutex
  pc,             \* per thread: position in the operation it executes
  op,             \* per thread: operation of its latest call
  running,        \* per thread: value returned by is_server_running()
  spawn,          \* per thread: outcome of Command::spawn ("none"/"Ok"/"Err")
  child,          \* per thread: the Child bound by Ok(child)
  found,          \* per thread: the child bound by `if let Some(ref mut child)`
  kill,           \* per thread: outcome of child.kill() ("none"/"Ok"/"Err")
  ret,            \* per thread: how its latest call ended ("none"/"Ok"/"panic")
  entry,          \* per thread: slot content when its latest call began (history)
  proc,           \* per pid: "unborn", "running", "listening", "dead"
  external,       \* an out-of-band server is listening on the endpoint
  spawnCalls,     \* number of invocations of the launch command
  killCalls,      \* per pid: number of kill() calls made on its handle
  registered,     \* the CloseRequested handler is installed on the main window
  calls,          \* the operations called so far, in call order (history)
  concurrent      \* some call began while another call was in progress (history)

vars == << SERVER_PROCESS, guard, poisoned, pc, op, running, spawn, child,
           found, kill, ret, entry, proc, external, spawnCalls, killCalls,
           registered, calls, concurrent >>

locals == << running, spawn, child, found, kill >>
world == << proc, external >>
counters == << spawnCalls, killCalls >>

Threads == DOMAIN pc

\* a listener is bound on 127.0.0.1:3000
ListenerBound == external \/ \E p \in Pids : proc[p] = "listening"

\* what the OS answers to a connection attempt
TcpConnect == IF ListenerBound THEN {"Ok"} ELSE ConnectErrors

\* variant of is_server_running: a timed-out connection counts as reachable
is_server_running_timeout_true(r) == r \in {"Ok", "TimedOut"}

\* lib.rs:17-22
is_server_running(r) == IF r = "Ok" THEN TRUE ELSE FALSE

\* children created so far
Launched == {p \in Pids : proc[p] # "unborn"}
NextPid == Cardinality(Launched) + 1

InitFor(T) ==
  /\ SERVER_PROCESS = None
  /\ guard = None
  /\ poisoned = FALSE
  /\ pc = [t \in T |-> "idle"]
  /\ op = [t \in T |-> "none"]
  /\ running = [t \in T |-> FALSE]
  /\ spawn = [t \in T |-> "none"]
  /\ child = [t \in T |-> None]
  /\ found = [t \in T |-> None]
  /\ kill = [t \in T |-> "none"]
  /\ ret = [t \in T |-> "none"]
  /\ entry = [t \in T |-> None]
  /\ proc = [p \in Pids |-> "unborn"]
  /\ external \in BOOLEAN
  /\ spawnCalls = 0
  /\ killCalls = [p \in Pids |-> 0]
  /\ registered = FALSE
  /\ calls = << >>
  /\ concurrent = FALSE

\* a thread begins a call of operation o at position p
Begin(t, o, p) ==
  /\ pc[t] = "idle"
  /\ pc' = [pc EXCEPT ![t] = p]
  /\ op' = [op EXCEPT ![t] = o]
  /\ running' = [running EXCEPT ![t] = FALSE]
  /\ spawn' = [spawn EXCEPT ![t] = "none"]
  /\ child' = [child EXCEPT ![t] = None]
  /\ found' = [found EXCEPT ![t] = None]
  /\ kill' = [kill EXCEPT ![t] = "none"]
  /\ ret' = [ret EXCEPT ![t] = "none"]
  /\ entry' = [entry EXCEPT ![t] = SERVER_PROCESS]
  /\ calls' = Append(calls, o)
  /\ concurrent' = (concurrent \/ \E u \in Threads \ {t} : pc[u] # "idle")
  /\ UNCHANGED << SERVER_PROCESS, guard, poisoned, world, counters, registered >>

\* ------------------------------------------------ setup closure, 47-64
\* callers of the operations (Spec): any thread, any operation, any time
CallEnsureStarted(t) ==
  /\ Len(calls) < MaxCalls
  /\ Begin(t, "ensure_started", "probe")

CallShutdown(t) ==
  /\ Len(calls) < MaxCalls
  /\ Begin(t, "shutdown", "sd_lock")

\* variant of setup_probe: the launch is attempted whatever the probe says
setup_probe_always_spawn(t) ==
  /\ pc[t] = "probe"
  /\ \E r \in TcpConnect :
       /\ running' = [running EXCEPT ![t] = is_server_running(r)]
       /\ pc' = [pc EXCEPT ![t] = "spawn"]
  /\ UNCHANGED << SERVER_PROCESS, guard, poisoned, op, spawn, child, found,
                  kill, ret, entry, world, counters, registered, calls,
                  concurrent >>

\* lib.rs:47  if !is_server_running() { ... } else { println!(...) }
setup_probe(t) ==
  /\ pc[t] = "probe"
  /\ \E r \in TcpConnect :
       /\ running' = [running EXCEPT ![t] = is_server_running(r)]
       /\ pc' = [pc EXCEPT ![t] = IF is_server_running(r) THEN "register"
                                                         ELSE "spawn"]
  /\ UNCHANGED << SERVER_PROCESS, guard, poisoned, op, spawn, child, found,
                  kill, ret, entry, world, counters, registered, calls,
                  concurrent >>

\* variant of setup_spawn: a failed launch is attempted again
setup_spawn_retries(t) ==
  /\ pc[t] = "spawn"
  /\ spawnCalls < MaxCalls
  /\ spawnCalls' = spawnCalls + 1
  /\ \/ /\ spawn' = [spawn EXCEPT ![t] = "Ok"]
        /\ child' = [child EXCEPT ![t] = NextPid]
        /\ proc' = [proc EXCEPT ![NextPid] = "running"]
        /\ pc' = [pc EXCEPT ![t] = "es_lock"]
     \/ /\ spawn' = [spawn EXCEPT ![t] = "Err"]
        /\ pc' = [pc EXCEPT ![t] = "spawn"]
        /\ UNCHANGED << child, proc >>
  /\ UNCHANGED << SERVER_PROCESS, guard, poisoned, op, running, found, kill,
                  ret, entry, external, killCalls, registered, calls,
                  concurrent >>

\* lib.rs:49-52, 58-60  match Command::new("elizaos").arg("start").spawn()
setup_spawn(t) ==
  /\ pc[t] = "spawn"
  /\ spawnCalls' = spawnCalls + 1
  /\ \/ /\ spawn' = [spawn EXCEPT ![t] = "Ok"]
        /\ child' = [child EXCEPT ![t] = NextPid]
        /\ proc' = [proc EXCEPT ![NextPid] = "running"]
        /\ pc' = [pc EXCEPT ![t] = "es_lock"]
     \/ /\ spawn' = [spawn EXCEPT ![t] = "Err"]
        /\ pc' = [pc EXCEPT ![t] = "register"]
        /\ UNCHANGED << child, proc >>
  /\ UNCHANGED << SERVER_PROCESS, guard, poisoned, op, running, found, kill,
                  ret, entry, external, killCalls, registered, calls,
                  concurrent >>

\* lib.rs:54  let mut server_guard = SERVER_PROCESS.lock().unwrap();
setup_lock(t) ==
  /\ pc[t] = "es_lock"
  /\ guard = None
  /\ IF poisoned
       THEN /\ pc' = [pc EXCEPT ![t] = "idle"]
            /\ ret' = [ret EXCEPT ![t] = "panic"]
            /\ UNCHANGED guard
       ELSE /\ guard' = t
            /\ pc' = [pc EXCEPT ![t] = "es_store"]
            /\ UNCHANGED ret
  /\ UNCHANGED << SERVER_PROCESS, poisoned, op, locals, entry, world,
                  counters, registered, calls, concurrent >>

\* variant of setup_store: the spawned child is dropped instead of stored
setup_store_forgets(t) ==
  /\ pc[t] = "es_store"
  /\ pc' = [pc EXCEPT ![t] = "es_drop"]
  /\ UNCHANGED << SERVER_PROCESS, guard, poisoned, op, locals, ret, entry,
                  world, counters, registered, calls, concurrent >>

\* variant of setup_store: a handle already in the slot is killed before it
\* is replaced
setup_store_kills_previous(t) ==
  /\ pc[t] = "es_store"
  /\ IF SERVER_PROCESS = None
       THEN UNCHANGED << killCalls, proc >>
       ELSE /\ killCalls' = [killCalls EXCEPT ![SERVER_PROCESS] = @ + 1]
            /\ proc' = [proc EXCEPT ![SERVER_PROCESS] = "dead"]
  /\ SERVER_PROCESS' = child[t]
  /\ pc' = [pc EXCEPT ![t] = "es_drop"]
  /\ UNCHANGED << guard, poisoned, op, locals, ret, entry, external,
                  spawnCalls, registered, calls, concurrent >>

\* lib.rs:55  *server_guard = Some(child);
setup_store(t) ==
  /\ pc[t] = "es_store"
  /\ SERVER_PROCESS' = child[t]
  /\ pc' = [pc EXCEPT ![t] = "es_drop"]
  /\ UNCHANGED << guard, poisoned, op, locals, ret, entry, world, counters,
                  registered, calls, concurrent >>

\* lib.rs:56-57  println!; server_guard goes out of scope
setup_drop(t) ==
  /\ pc[t] = "es_drop"
  /\ guard' = None
  /\ pc' = [pc EXCEPT ![t] = "register"]
  /\ UNCHANGED << SERVER_PROCESS, poisoned, op, locals, ret, entry, world,
                  counters, registered, calls, concurrent >>

\* lib.rs:66-80  install the CloseRequested handler if there is a desktop
\* main window, then Ok(())
setup_return(t) ==
  /\ pc[t] = "register"
  /\ \E w \in BOOLEAN : registered' = (registered \/ w)
  /\ ret' = [ret EXCEPT ![t] = "Ok"]
  /\ pc' = [pc EXCEPT ![t] = "idle"]
  /\ UNCHANGED << SERVER_PROCESS, guard, poisoned, op, locals, entry, world,
                  counters, calls, concurrent >>

\* ------------------------------------------------ shutdown_server, 25-36
\* variant of shutdown_server_lock: the slot is entered without waiting for
\* the mutex
shutdown_server_lock_no_wait(t) ==
  /\ pc[t] = "sd_lock"
  /\ guard' = t
  /\ pc' = [pc EXCEPT ![t] = "sd_kill"]
  /\ UNCHANGED << SERVER_PROCESS, poisoned, op, locals, ret, entry, world,
                  counters, registered, calls, concurrent >>

\* lib.rs:27  let mut guard = SERVER_PROCESS.lock().unwrap();
shutdown_server_lock(t) ==
  /\ pc[t] = "sd_lock"
  /\ guard = None
  /\ IF poisoned
       THEN /\ pc' = [pc EXCEPT ![t] = "idle"]
            /\ ret' = [ret EXCEPT ![t] = "panic"]
            /\ UNCHANGED guard
       ELSE /\ guard' = t
            /\ pc' = [pc EXCEPT ![t] = "sd_kill"]
            /\ UNCHANGED ret
  /\ UNCHANGED << SERVER_PROCESS, poisoned, op, locals, entry, world,
                  counters, registered, calls, concurrent >>

\* variant of shutdown_server_kill: the held child is not signalled
shutdown_server_kill_skipped(t) ==
  /\ pc[t] = "sd_kill"
  /\ IF SERVER_PROCESS = None
       THEN UNCHANGED found
       ELSE found' = [found EXCEPT ![t] = SERVER_PROCESS]
  /\ pc' = [pc EXCEPT ![t] = "sd_clear"]
  /\ UNCHANGED << SERVER_PROCESS, guard, poisoned, op, running, spawn, child,
                  kill, ret, entry, world, counters, registered, calls,
                  concurrent >>

\* variant of shutdown_server_kill: the result of kill() is unwrapped, so a
\* failed kill panics while the guard is held and poisons the mutex
shutdown_server_kill_unwrap(t) ==
  /\ pc[t] = "sd_kill"
  /\ IF SERVER_PROCESS = None
       THEN /\ pc' = [pc EXCEPT ![t] = "sd_clear"]
            /\ UNCHANGED << found, kill, proc, killCalls, guard, poisoned, ret >>
       ELSE /\ found' = [found EXCEPT ![t] = SERVER_PROCESS]
            /\ killCalls' = [killCalls EXCEPT ![SERVER_PROCESS] = @ + 1]
            /\ \/ /\ kill' = [kill EXCEPT ![t] = "Ok"]
                  /\ proc' = [proc EXCEPT ![SERVER_PROCESS] = "dead"]
                  /\ pc' = [pc EXCEPT ![t] = "sd_clear"]
                  /\ UNCHANGED << guard, poisoned, ret >>
               \/ /\ kill' = [kill EXCEPT ![t] = "Err"]
                  /\ pc' = [pc EXCEPT ![t] = "idle"]
                  /\ ret' = [ret EXCEPT ![t] = "panic"]
                  /\ guard' = None
                  /\ poisoned' = TRUE
                  /\ UNCHANGED proc
  /\ UNCHANGED << SERVER_PROCESS, op, running, spawn, child, entry, external,
                  spawnCalls, registered, calls, concurrent >>

\* variant of shutdown_server_kill: the most recently launched child is
\* signalled, whether or not the slot holds its handle
shutdown_server_kill_last_launched(t) ==
  /\ pc[t] = "sd_kill"
  /\ IF Launched = {}
       THEN UNCHANGED << found, kill, proc, killCalls >>
       ELSE LET p == Cardinality(Launched) IN
            /\ found' = [found EXCEPT ![t] = p]
            /\ killCalls' = [killCalls EXCEPT ![p] = @ + 1]
            /\ \/ /\ kill' = [kill EXCEPT ![t] = "Ok"]
                  /\ proc' = [proc EXCEPT ![p] = "dead"]
               \/ /\ kill' = [kill EXCEPT ![t] = "Err"]
                  /\ UNCHANGED proc
  /\ pc' = [pc EXCEPT ![t] = "sd_clear"]
  /\ UNCHANGED << SERVER_PROCESS, guard, poisoned, op, running, spawn, child,
                  ret, entry, external, spawnCalls, registered, calls,
                  concurrent >>

\* lib.rs:28-34  if let Some(ref mut child) = *guard { child.kill() ... }
shutdown_server_kill(t) ==
  /\ pc[t] = "sd_kill"
  /\ IF SERVER_PROCESS = None
       THEN UNCHANGED << found, kill, proc, killCalls >>
       ELSE /\ found' = [found EXCEPT ![t] = SERVER_PROCESS]
            /\ killCalls' = [killCalls EXCEPT ![SERVER_PROCESS] = @ + 1]
            /\ \/ /\ kill' = [kill EXCEPT ![t] = "Ok"]
                  /\ proc' = [proc EXCEPT ![SERVER_PROCESS] = "dead"]
               \/ /\ kill' = [kill EXCEPT ![t] = "Err"]
                  /\ UNCHANGED proc
  /\ pc' = [pc EXCEPT ![t] = "sd_clear"]
  /\ UNCHANGED << SERVER_PROCESS, guard, poisoned, op, running, spawn, child,
                  ret, entry, external, spawnCalls, registered, calls,
                  concurrent >>

\* variant of shutdown_server_clear: the slot is left as it is
shutdown_server_clear_keeps(t) ==
  /\ pc[t] = "sd_clear"
  /\ pc' = [pc EXCEPT ![t] = "sd_drop"]
  /\ UNCHANGED << SERVER_PROCESS, guard, poisoned, op, locals, ret, entry,
                  world, counters, registered, calls, concurrent >>

\* variant of shutdown_server_clear: the slot is cleared only after a
\* successful kill
shutdown_server_clear_on_success(t) ==
  /\ pc[t] = "sd_clear"
  /\ SERVER_PROCESS' = IF kill[t] = "Err" THEN SERVER_PROCESS ELSE None
  /\ pc' = [pc EXCEPT ![t] = "sd_drop"]
  /\ UNCHANGED << guard, poisoned, op, locals, ret, entry, world, counters,
                  registered, calls, concurrent >>

\* lib.rs:35  *guard = None;
shutdown_server_clear(t) ==
  /\ pc[t] = "sd_clear"
  /\ SERVER_PROCESS' = None
  /\ pc' = [pc EXCEPT ![t] = "sd_drop"]
  /\ UNCHANGED << guard, poisoned, op, locals, ret, entry, world, counters,
                  registered, calls, concurrent >>

\* variant of shutdown_server_drop: the function returns with the mutex
\* still locked
shutdown_server_drop_keeps_lock(t) ==
  /\ pc[t] = "sd_drop"
  /\ ret' = [ret EXCEPT ![t] = "Ok"]
  /\ pc' = [pc EXCEPT ![t] = "idle"]
  /\ UNCHANGED << SERVER_PROCESS, guard, poisoned, op, locals, entry, world,
                  counters, registered, calls, concurrent >>

\* lib.rs:36  guard goes out of scope, the function returns
shutdown_server_drop(t) ==
  /\ pc[t] = "sd_drop"
  /\ guard' = None
  /\ ret' = [ret EXCEPT ![t] = "Ok"]
  /\ pc' = [pc EXCEPT ![t] = "idle"]
  /\ UNCHANGED << SERVER_PROCESS, poisoned, op, locals, entry, world,
                  counters, registered, calls, concurrent >>

\* ------------------------------------------------------------ environment
\* an out-of-band server binds the endpoint / goes away
ExternalBind ==
  /\ ~ListenerBound
  /\ external' = TRUE
  /\ UNCHANGED << SERVER_PROCESS, guard, poisoned, pc, op, locals, ret, entry,
                  proc, counters, registered, calls, concurrent >>

ExternalClose ==
  /\ external
  /\ external' = FALSE
  /\ UNCHANGED << SERVER_PROCESS, guard, poisoned, pc, op, locals, ret, entry,
                  proc, counters, registered, calls, concurrent >>

\* a launched server finishes starting and binds the endpoint
ChildBind(p) ==
  /\ proc[p] = "running"
  /\ ~ListenerBound
  /\ proc' = [proc EXCEPT ![p] = "listening"]
  /\ UNCHANGED << SERVER_PROCESS, guard, poisoned, pc, op, locals, ret, entry,
                  external, counters, registered, calls, concurrent >>

\* a launched server exits by itself
ChildExit(p) ==
  /\ proc[p] \in {"running", "listening"}
  /\ proc' = [proc EXCEPT ![p] = "dead"]
  /\ UNCHANGED << SERVER_PROCESS, guard, poisoned, pc, op, locals, ret, entry,
                  external, counters, registered, calls, concurrent >>

\* ---------------------------------------- Spec: the operations' contract
Init == InitFor(ApiThreads)

Next ==
  \/ \E t \in Threads : CallEnsureStarted(t)
  \/ \E t \in Threads : CallShutdown(t)
  \/ \E t \in Threads : setup_probe(t)
  \/ \E t \in Threads : setup_spawn(t)
  \/ \E t \in Threads : setup_lock(t)
  \/ \E t \in Threads : setup_store(t)
  \/ \E t \in Threads : setup_drop(t)
  \/ \E t \in Threads : setup_return(t)
  \/ \E t \in Threads : shutdown_server_lock(t)
  \/ \E t \in Threads : shutdown_server_kill(t)
  \/ \E t \in Threads : shutdown_server_clear(t)
  \/ \E t \in Threads : shutdown_server_drop(t)
  \/ ExternalBind
  \/ ExternalClose
  \/ \E p \in Pids : ChildBind(p)
  \/ \E p \in Pids : ChildExit(p)

Spec == Init /\ [][Next]_vars

\* ------------------------------------- SpecApp: the program as wired, 39-90
\* variant of RunSetup: the setup closure is run again whenever it is idle
RunSetup_again ==
  /\ Len(calls) < MaxCalls
  /\ Begin(Setup, "ensure_started", "probe")

\* lib.rs:45  the setup closure runs once, first
RunSetup ==
  /\ op[Setup] = "none"
  /\ Begin(Setup, "ensure_started", "probe")

\* variant of OnCloseRequested: the handler is live as soon as the setup
\* closure has been entered
OnCloseRequested_early ==
  /\ op[Setup] # "none"
  /\ op[CloseRequested] = "none"
  /\ Begin(CloseRequested, "shutdown", "sd_lock")

\* lib.rs:72-75  the window handler, once installed and setup has returned
OnCloseRequested ==
  /\ registered
  /\ ret[Setup] = "Ok"
  /\ op[CloseRequested] = "none"
  /\ Begin(CloseRequested, "shutdown", "sd_lock")

\* lib.rs:85-88  the run callback, in the event loop entered after setup
OnExit ==
  /\ ret[Setup] = "Ok"
  /\ op[Exit] = "none"
  /\ Begin(Exit, "shutdown", "sd_lock")

InitApp == InitFor(AppThreads)

NextApp ==
  \/ RunSetup
  \/ OnCloseRequested
  \/ OnExit
  \/ \E t \in Threads : setup_probe(t)
  \/ \E t \in Threads : setup_spawn(t)
  \/ \E t \in Threads : setup_lock(t)
  \/ \E t \in Threads : setup_store(t)
  \/ \E t \in Threads : setup_drop(t)
  \/ \E t \in Threads : setup_return(t)
  \/ \E t \in Threads : shutdown_server_lock(t)
  \/ \E t \in Threads : shutdown_server_kill(t)
  \/ \E t \in Threads : shutdown_server_clear(t)
  \/ \E t \in Threads : shutdown_server_drop(t)
  \/ ExternalBind
  \/ ExternalClose
  \/ \E p \in Pids : ChildBind(p)
  \/ \E p \in Pids : ChildExit(p)

SpecApp == InitApp /\ [][NextApp]_vars

\* total number of kill() calls
RECURSIVE SumKills(_)
SumKills(S) == IF S = {} THEN 0
               ELSE LET p == CHOOSE q \in S : TRUE
                    IN killCalls[p] + SumKills(S \ {p})
KillTotal == SumKills(Pids)

AllIdle == \A t \in Threads : pc[t] = "idle"

\* the next step of the operation thread t is executing
Step(t) ==
  \/ setup_probe(t)
  \/ setup_spawn(t)
  \/ setup_lock(t)
  \/ setup_store(t)
  \/ setup_drop(t)
  \/ setup_return(t)
  \/ shutdown_server_lock(t)
  \/ shutdown_server_kill(t)
  \/ shutdown_server_clear(t)
  \/ shutdown_server_drop(t)

\* the wired program with every thread that is inside an operation
\* eventually scheduled
SpecAppFair ==
  /\ InitApp
  /\ [][NextApp]_vars
  /\ \A t \in AppThreads : WF_vars(Step(t))

TypeOK ==
  /\ SERVER_PROCESS \in {None} \cup Pids
  /\ guard \in {None} \cup Threads
  /\ poisoned \in BOOLEAN
  /\ \A t \in Threads :
       /\ running[t] \in BOOLEAN
       /\ spawn[t] \in {"none", "Ok", "Err"}
       /\ kill[t] \in {"none", "Ok", "Err"}
       /\ ret[t] \in {"none", "Ok", "panic"}
       /\ child[t] \in {None} \cup Pids
       /\ found[t] \in {None} \cup Pids
  /\ spawnCalls \in 0..MaxCalls
  /\ Len(calls) <= MaxCalls

\* ===================================================================
\* Properties
\* ===================================================================
HookThreads == Threads \ {Setup}

\* C1: two ensure_started() calls in sequence with no shutdown(), from
\* Idle with the endpoint unreachable at the first call: the launch command
\* is invoked exactly once and the owned handle is that of the first spawn
\* (the second call is a no-op because the handle is already stored).
C1_EnsureStartedTwiceSpawnsOnce ==
  ( /\ calls = << "ensure_started", "ensure_started" >>
    /\ ~concurrent
    /\ AllIdle )
  => \A t1 \in Threads : \A t2 \in Threads \ {t1} :
       ( /\ entry[t1] = None
         /\ ~running[t1]
         /\ spawn[t1] = "Ok"
         /\ entry[t2] = child[t1] )
       => /\ spawnCalls = 1
          /\ SERVER_PROCESS = child[t1]

\* C2: when the probe returns true in an ensure_started() call, that call
\* never invokes the launch command and none of its steps changes the
\* stored handle.
C2_NoSpawnWhenReachable ==
  [][ \A t \in Threads :
        (op'[t] = "ensure_started" /\ running'[t])
        => /\ pc'[t] \in {"register", "idle"}
           /\ spawn'[t] = "none"
           /\ child'[t] = None
           /\ (pc'[t] # pc[t] =>
                 /\ SERVER_PROCESS' = SERVER_PROCESS
                 /\ spawnCalls' = spawnCalls) ]_vars

\* C2 witness: an ensure_started() call probed true on an Idle supervisor
\* and returned; nothing was launched and the supervisor is still Idle
C2_Witness ==
  \E t \in Threads :
    /\ op[t] = "ensure_started"
    /\ running[t]
    /\ ret[t] = "Ok"
    /\ entry[t] = None
    /\ SERVER_PROCESS = None
    /\ spawnCalls = 0

\* C3: in the wired program shutdown() is idempotent: at most one of the
\* hooks' shutdown() calls finds a handle, no handle is signalled twice, no
\* call panics, and once a shutdown() has returned the owned process has
\* been signalled exactly once in total.
C3_ShutdownIdempotent ==
  /\ \A p \in Pids : killCalls[p] <= 1
  /\ \A t \in HookThreads : ret[t] # "panic"
  /\ \A t \in HookThreads : \A u \in HookThreads \ {t} :
       found[t] # None => (found[u] = None /\ kill[u] = "none")
  /\ \A t \in HookThreads :
       (ret[t] = "Ok" /\ spawn[Setup] = "Ok") => KillTotal = 1

\* C3 witness: both hooks ran shutdown() on a Running supervisor; one found
\* the handle, the other found none, one kill() in total
C3_Witness ==
  /\ ret[CloseRequested] = "Ok"
  /\ ret[Exit] = "Ok"
  /\ \E t \in HookThreads : found[t] # None
  /\ \E t \in HookThreads : found[t] = None /\ entry[t] = None
  /\ KillTotal = 1

\* C4: in the wired program, whichever hook fires, once a shutdown() has
\* returned every process launched by the setup closure has been sent the
\* terminate signal and the supervisor is Idle.
C4_LaunchedIsTerminated ==
  (\E t \in HookThreads : ret[t] = "Ok")
  => /\ SERVER_PROCESS = None
     /\ \A p \in Launched : killCalls[p] >= 1

\* C4 witness: no window handler was installed, only the Exit hook fired,
\* and the process launched by setup was signalled
C4_Witness ==
  /\ ~registered
  /\ op[CloseRequested] = "none"
  /\ ret[Exit] = "Ok"
  /\ spawn[Setup] = "Ok"
  /\ killCalls[child[Setup]] = 1
  /\ SERVER_PROCESS = None

\* C5: under concurrent ensure_started() and shutdown() callers, whenever
\* the mutex is free the slot does not hold a handle that was already sent
\* the terminate signal, and no handle is signalled more than once.
C5_NoStaleHandleNoDoubleKill ==
  /\ guard = None =>
       (SERVER_PROCESS # None => killCalls[SERVER_PROCESS] = 0)
  /\ \A t \in Threads : found[t] # None => killCalls[found[t]] = 1

\* C5 witness: one ensure_started() and one shutdown() overlapped on a fresh
\* Idle supervisor, the shutdown() found and signalled the new handle
C5_Witness ==
  /\ concurrent
  /\ Len(calls) = 2
  /\ AllIdle
  /\ \E t \in Threads : \E u \in Threads \ {t} :
       /\ op[t] = "ensure_started" /\ spawn[t] = "Ok" /\ entry[t] = None
       /\ op[u] = "shutdown" /\ found[u] = child[t] /\ entry[u] = None
  /\ SERVER_PROCESS = None

\* C6: after any sequence of ensure_started() and shutdown() calls at most
\* one launched process has not yet been sent the terminate signal.
C6_AtMostOneManagedProcess ==
  ~concurrent => Cardinality({p \in Launched : killCalls[p] = 0}) <= 1

\* C7: shutdown() clears the slot in all cases: whenever a shutdown() call
\* returns the slot is empty, whether its kill() succeeded or failed, and a
\* handle whose kill() failed has been signalled exactly once (no retry by
\* that call or by a later one).
C7_ShutdownAlwaysClears ==
  [][ /\ \A t \in Threads :
           (pc[t] = "sd_drop" /\ pc'[t] = "idle") => SERVER_PROCESS' = None
      /\ \A t \in Threads :
           kill'[t] = "Err" =>
             /\ killCalls'[found'[t]] = 1
             /\ SERVER_PROCESS' = found'[t] => guard' = t ]_vars

\* C7 witness: a shutdown() whose kill() failed has returned leaving the
\* supervisor Idle, and a later shutdown() found nothing to signal
C7_Witness ==
  \E t \in Threads : \E u \in Threads \ {t} :
    /\ kill[t] = "Err"
    /\ ret[t] = "Ok"
    /\ op[u] = "shutdown"
    /\ ret[u] = "Ok"
    /\ entry[u] = None
    /\ found[u] = None
    /\ SERVER_PROCESS = None
    /\ killCalls[found[t]] = 1

\* C8: when the launch command fails, the ensure_started() call stores no
\* handle and does not touch the slot, does not invoke the launch command
\* again, and returns normally.
C8_SpawnFailureLeavesIdle ==
  [][ \A t \in Threads :
        spawn'[t] = "Err" =>
          /\ child'[t] = None
          /\ pc'[t] \in {"register", "idle"}
          /\ ret'[t] # "panic"
          /\ pc'[t] # pc[t] => SERVER_PROCESS' = SERVER_PROCESS
          /\ (spawn[t] = "Err" /\ pc'[t] # pc[t]) => spawnCalls' = spawnCalls
    ]_vars

\* C8 witness: the launch failed on an Idle supervisor, the call returned
\* Ok after one attempt and the supervisor is still Idle
C8_Witness ==
  \E t \in Threads :
    /\ op[t] = "ensure_started"
    /\ spawn[t] = "Err"
    /\ ret[t] = "Ok"
    /\ entry[t] = None
    /\ spawnCalls = 1
    /\ SERVER_PROCESS = None

\* C9: end to end in the wired program: with the endpoint unreachable and a
\* successful launch of P, the supervisor is Running(P) when setup returns
\* and until a shutdown() enters; once a shutdown() has returned the
\* supervisor is Idle, P was signalled, and the kill() count is exactly 1.
C9_EndToEnd ==
  (ret[Setup] = "Ok" /\ ~running[Setup] /\ spawn[Setup] = "Ok")
  => /\ spawnCalls = 1
     /\ child[Setup] \in Launched
     /\ (\A t \in HookThreads : pc[t] \in {"idle", "sd_lock"} /\ ret[t] = "none")
          => (SERVER_PROCESS = child[Setup] /\ KillTotal = 0)
     /\ (\E t \in HookThreads : ret[t] = "Ok")
          => /\ SERVER_PROCESS = None
             /\ killCalls[child[Setup]] = 1
             /\ KillTotal = 1

\* C9 witness: setup launched P, a hook's shutdown() signalled it
\* successfully and returned
C9_Witness ==
  /\ ~running[Setup]
  /\ spawn[Setup] = "Ok"
  /\ ret[Setup] = "Ok"
  /\ \E t \in HookThreads :
       ret[t] = "Ok" /\ found[t] = child[Setup] /\ kill[t] = "Ok"
  /\ proc[child[Setup]] = "dead"
  /\ SERVER_PROCESS = None
  /\ KillTotal = 1

\* C10: the probe returns true exactly when a listener is bound on the
\* endpoint at the time of the call; every connection failure gives false.
C10_ProbeMatchesListener ==
  [][ \A t \in Threads :
        (pc[t] = "probe" /\ pc'[t] # "probe")
        => (running'[t] <=> ListenerBound) ]_vars

\* C10 witness: a probe returned true with a listener bound, the listener
\* was closed, and a probe made afterwards returned false
C10_Witness ==
  /\ ~concurrent
  /\ ~ListenerBound
  /\ \E t \in Threads : \E u \in Threads \ {t} :
       /\ op[t] = "ensure_started" /\ ret[t] = "Ok" /\ running[t]
       /\ op[u] = "ensure_started" /\ pc[u] = "spawn" /\ ~running[u]

\* C11: no failure aborts startup or shutdown: whatever the probe, the
\* launch and kill() return, no call of the setup closure or of
\* shutdown_server panics, the mutex is never poisoned, and every call that
\* has ended returned normally.
C11_NoFailureAborts ==
  /\ ~poisoned
  /\ \A t \in Threads :
       /\ ret[t] # "panic"
       /\ (op[t] # "none" /\ pc[t] = "idle") => ret[t] = "Ok"

\* C11 witness: the launch succeeded, kill() failed in a hook, and setup
\* and both hooks' shutdown_server calls returned Ok
C11_Witness ==
  /\ spawn[Setup] = "Ok"
  /\ ret[Setup] = "Ok"
  /\ \E t \in HookThreads : kill[t] = "Err" /\ ret[t] = "Ok"
  /\ \A t \in HookThreads : ret[t] = "Ok"

\* the positions inside the locked section of either operation
LockedSection == {"es_store", "es_drop", "sd_kill", "sd_clear", "sd_drop"}

\* C12: the slot is read and written only by the thread holding the mutex,
\* and at most one call is inside its locked section at any time.
C12_SlotOnlyUnderLock ==
  [][ /\ \A t \in Threads : pc[t] \in LockedSection => guard = t
      /\ \A t \in Threads : \A u \in Threads \ {t} :
           ~(pc[t] \in LockedSection /\ pc[u] \in LockedSection)
      /\ SERVER_PROCESS' # SERVER_PROCESS =>
           /\ guard # None
           /\ guard' = guard
           /\ pc[guard] \in {"es_store", "sd_clear"}
           /\ pc'[guard] # pc[guard]
      /\ \A t \in Threads :
           found'[t] # found[t] /\ found'[t] # None => guard = t ]_vars

\* C12 witness: one hook-style shutdown() is inside its locked section
\* holding a handle while another shutdown() waits for the mutex
C12_Witness ==
  \E t \in Threads : \E u \in Threads \ {t} :
    /\ op[t] = "shutdown" /\ pc[t] = "sd_kill" /\ guard = t
    /\ SERVER_PROCESS # None
    /\ op[u] = "shutdown" /\ pc[u] = "sd_lock"

\* C13: in the wired program the launch command is invoked only by the
\* setup closure and at most once in the application's lifetime; nothing is
\* launched once a shutdown_server call has returned, after the launch
\* failed, or after the child died.
C13_LaunchAtMostOnce ==
  [][ /\ spawnCalls' <= 1
      /\ spawnCalls' # spawnCalls =>
           /\ op[Setup] = "ensure_started"
           /\ pc[Setup] = "spawn"
           /\ \A t \in HookThreads : op[t] = "none"
      /\ ( \/ \E t \in HookThreads : ret[t] = "Ok"
           \/ spawn[Setup] = "Err"
           \/ \E p \in Pids : proc[p] = "dead" )
         => (spawnCalls' = spawnCalls /\ Launched' = Launched) ]_vars

\* C13 witness: setup launched one process, it was killed by a hook, both
\* hooks have returned, and the launch count is still one
C13_Witness ==
  /\ spawnCalls = 1
  /\ \A t \in HookThreads : ret[t] = "Ok"
  /\ \E t \in HookThreads : kill[t] = "Ok"
  /\ proc[child[Setup]] = "dead"
  /\ SERVER_PROCESS = None

C15_KillsOnlyOwnedHandle ==
  [][ /\ \A p \in Pids :
           killCalls'[p] # killCalls[p] =>
             /\ p \in Launched
             /\ SERVER_PROCESS = p
             /\ guard # None
             /\ op[guard] = "shutdown"
             /\ pc[guard] = "sd_kill"
             /\ found'[guard] = p
      /\ Launched' = {} => KillTotal' = 0
      /\ external' # external => pc' = pc ]_vars

\* C15 witness: ensure_started() found an out-of-band server and launched
\* nothing; a shutdown() then ran to completion without any kill() and the
\* external server is still listening
C15_Witness ==
  /\ external
  /\ Launched = {}
  /\ KillTotal = 0
  /\ \E t \in Threads : \E u \in Threads \ {t} :
       /\ op[t] = "ensure_started" /\ running[t] /\ ret[t] = "Ok"
       /\ op[u] = "shutdown" /\ ret[u] = "Ok" /\ found[u] = None

\* C16: the mutex never deadlocks the supervisor: it is taken only when
\* free and only at the lock() of an operation, it is not held by a thread
\* that is outside an operation, and under fair scheduling every call of
\* the setup closure and of shutdown_server (both hooks included) returns.
C16_NoDeadlock ==
  /\ [](\A t \in AppThreads : pc[t] = "idle" => guard # t)
  /\ [][ \A t \in AppThreads :
           (guard' = t /\ guard # t) =>
             (guard = None /\ pc[t] \in {"es_lock", "sd_lock"}) ]_vars
  /\ \A t \in AppThreads : (pc[t] # "idle") ~> (pc[t] = "idle")

\* C16 witness: the two hooks ran shutdown_server concurrently and both
\* returned, with the mutex free again
C16_Witness ==
  /\ concurrent
  /\ ret[CloseRequested] = "Ok"
  /\ ret[Exit] = "Ok"
  /\ guard = None
  /\ AllIdle

\* C17: frame conditions: a step of shutdown() never invokes the launch
\* command and never probes; a step of ensure_started() never calls kill();
\* a shutdown() that finds the slot empty leaves the slot empty and the
\* launch and kill counts as they were.
C17_FrameConditions ==
  [][ \A t \in Threads :
        pc'[t] # pc[t] =>
          /\ op'[t] = "shutdown" =>
               /\ spawnCalls' = spawnCalls
               /\ Launched' = Launched
               /\ pc'[t] \in {"sd_lock", "sd_kill", "sd_clear", "sd_drop", "idle"}
               /\ ~running'[t]
               /\ spawn'[t] = "none"
               /\ child'[t] = None
          /\ op'[t] = "ensure_started" =>
               /\ killCalls' = killCalls
               /\ kill'[t] = "none"
               /\ found'[t] = None
          /\ (op[t] = "shutdown" /\ pc[t] = "sd_lock") =>
               /\ SERVER_PROCESS' = SERVER_PROCESS
               /\ counters' = counters
          /\ (op[t] = "shutdown" /\ guard = t /\ SERVER_PROCESS = None
                                /\ found[t] = None) =>
               /\ SERVER_PROCESS' = None
               /\ counters' = counters
               /\ proc' = proc
               /\ found'[t] = None
               /\ kill'[t] = "none" ]_vars

\* C17 witness: a shutdown() called on an Idle supervisor has returned; the
\* slot is empty and nothing was launched or signalled
C17_Witness ==
  \E t \in Threads :
    /\ op[t] = "shutdown"
    /\ entry[t] = None
    /\ found[t] = None
    /\ ret[t] = "Ok"
    /\ SERVER_PROCESS = None
    /\ spawnCalls = 0
    /\ KillTotal = 0

====
